---- MODULE Spec2Model ----
(***************************************************************************)
(* A model of turtlecoin-api-proxy (src/index.js): the statistics helpers  *)
(* of the aggregator, the read-through cache around the daemon and pool    *)
(* calls, and the four network-wide aggregation rounds.                    *)
(***************************************************************************)
EXTENDS Integers, Sequences, FiniteSets, TLC

(***************************************************************************)
(* Bounds of the model.                                                    *)
(***************************************************************************)
\* longest sample list handed to the statistics helpers
MaxLen == 5
\* number of distinct sample values (5, 6, 7, ...)
NumVals == 3

SampleVals == 5..(4 + NumVals)

SampleLists == UNION { [1..n -> SampleVals] : n \in 0..MaxLen }

(***************************************************************************)
(* Helper functions (src/index.js:1412-1453).                              *)
(***************************************************************************)
Range(s) == { s[i] : i \in 1..Len(s) }

Front(s) == SubSeq(s, 1, Len(s) - 1)

\* Array.prototype.reduce without an initial value throws a TypeError on an
\* empty array: maxValue and minValue throw there.
ReduceThrows(arr) == Len(arr) = 0

RECURSIVE MaxFrom(_, _, _)
MaxFrom(arr, i, a) ==
  IF i > Len(arr) THEN a
  ELSE MaxFrom(arr, i + 1, IF a >= arr[i] THEN a ELSE arr[i])

maxValue(arr) == MaxFrom(arr, 2, arr[1])

RECURSIVE MinFrom(_, _, _)
MinFrom(arr, i, a) ==
  IF i > Len(arr) THEN a
  ELSE MinFrom(arr, i + 1, IF a <= arr[i] THEN a ELSE arr[i])

minValue(arr) == MinFrom(arr, 2, arr[1])

RECURSIVE SumFrom(_, _, _)
SumFrom(arr, i, sum) ==
  IF i > Len(arr) THEN sum ELSE SumFrom(arr, i + 1, sum + arr[i])

\* Math.round(x) is floor(x + 1/2); with x = sum / n that is
\* floor((2 * sum + n) / (2 * n)).
MathRoundDiv(sum, n) == (2 * sum + n) \div (2 * n)

avgValue(arr) == MathRoundDiv(SumFrom(arr, 1, 0), Len(arr))

\* arr.sort((a, b) => a - b): ascending.
RECURSIVE InsertAsc(_, _)
InsertAsc(s, x) ==
  IF s = << >> THEN << x >>
  ELSE IF x - Head(s) < 0 THEN << x >> \o s
  ELSE << Head(s) >> \o InsertAsc(Tail(s), x)

RECURSIVE SortAsc(_)
SortAsc(s) ==
  IF s = << >> THEN << >> ELSE InsertAsc(SortAsc(Front(s)), s[Len(s)])

\* n >> 1 for a non-negative n
Shr1(n) == n \div 2

\* medValue returns (arr[(n - 1) >> 1] + arr[n >> 1]) / 2 of the sorted array,
\* which may end in .5: med2 is twice that number, the sum of the two elements.
medValueUnsorted2(arr) ==
  arr[Shr1(Len(arr) - 1) + 1] + arr[Shr1(Len(arr)) + 1]

medValue2(arr) ==
  LET sorted == SortAsc(arr)
  IN  sorted[Shr1(Len(sorted) - 1) + 1] + sorted[Shr1(Len(sorted)) + 1]

\* tallies[val].tally after the counting loop
RECURSIVE Tally(_, _)
Tally(arr, val) ==
  IF arr = << >> THEN 0
  ELSE (IF Head(arr) = val THEN 1 ELSE 0) + Tally(Tail(arr), val)

\* the keys of tallies, one per distinct value
RECURSIVE TallyKeys(_)
TallyKeys(arr) ==
  IF arr = << >> THEN << >>
  ELSE LET keys == TallyKeys(Front(arr))
       IN  IF arr[Len(arr)] \in Range(keys) THEN keys
           ELSE Append(keys, arr[Len(arr)])

\* votes, before sorting: one {value, tally} per key of tallies
Votes(arr) ==
  LET keys == TallyKeys(arr)
  IN  [ i \in 1..Len(keys) |-> [ value |-> keys[i], tally |-> Tally(arr, keys[i]) ] ]

\* votes.sort((a, b) => b.value - a.value): descending by VALUE.
RECURSIVE InsertVote(_, _)
InsertVote(s, x) ==
  IF s = << >> THEN << x >>
  ELSE IF Head(s).value - x.value < 0 THEN << x >> \o s
  ELSE << Head(s) >> \o InsertVote(Tail(s), x)

RECURSIVE SortVotes(_)
SortVotes(s) ==
  IF s = << >> THEN << >> ELSE InsertVote(SortVotes(Front(s)), s[Len(s)])

\* confidence is the fraction conNum / conDen (winner.tally / arr.length)
voteValue(arr) ==
  IF Len(arr) = 0 THEN [ value |-> 0, conNum |-> 1, conDen |-> 1 ]
  ELSE LET winner == SortVotes(Votes(arr))[1]
       IN  [ value |-> winner.value, conNum |-> winner.tally, conDen |-> Len(arr) ]

(***************************************************************************)
(* Configuration (src/index.js:18-39).                                     *)
(***************************************************************************)
targetBlockTime == 30

cacheTimeout == 30

maxDeviance == 5

\* this.timeout = opts.timeout || 5000, in milliseconds
timeout == 5000

defaultHost == "public.turtlenode.io"

defaultPort == "11898"

backupSeeds ==
  << [ host |-> "us-east.turtlenode.io", port |-> "11898" ],
     [ host |-> "us-west.turtlenode.io", port |-> "11898" ],
     [ host |-> "asia.turtlenode.io", port |-> "11898" ],
     [ host |-> "europe.turtlenode.io", port |-> "11898" ],
     [ host |-> "public.turtlenode.io", port |-> "11898" ],
     [ host |-> "daemon.turtle.link", port |-> "11898" ] >>

\* this.seeds = opts.seeds || backupSeeds: the proxy is configured with the
\* first two of the backup seeds
seeds == SubSeq(backupSeeds, 1, 2)

\* what _getPoolList resolves to: {name, url} per pool of the directory,
\* which lists two pools
DirectoryPools ==
  << [ name |-> "pool1", url |-> "https://pool1/stats" ],
     [ name |-> "pool2", url |-> "https://pool2/stats" ] >>

\* largest height or difficulty a daemon or pool answers (0 is answered too)
MaxHeight == 1

\* requests and rounds started in one behaviour
MaxStarts == 2

\* seconds the clock advances in one step, and the number of such steps
TickStep == 31

MaxTicks == 1

(***************************************************************************)
(* JavaScript values.                                                      *)
(***************************************************************************)
\* an argument that was not passed formats as "undefined"
Undef == "undefined"

\* x || d
OrDefault(x, d) == IF x = Undef THEN d ELSE x

Undefined == [ undefined |-> TRUE ]

False == [ false |-> TRUE ]

Truthy(v) == v # Undefined /\ v # False

\* obj.field = value
SetField(obj, field, value) == (field :> value) @@ obj

IsError(p) == "error" \in DOMAIN p

\* obj.field, undefined (falsy) when the object has no such field
FieldOr0(p, field) == IF field \in DOMAIN p THEN p[field] ELSE 0

(***************************************************************************)
(* parseInteger (src/index.js:1406-1410).  A string is a sequence of       *)
(* one-character strings.                                                  *)
(***************************************************************************)
\* longest identifier of a request
MaxIdLen == 3

\* the characters identifiers are made of: digits, a hex letter and a sign
IdChars == { "0", "1", "a", "-" }

Identifiers == UNION { [1..n -> IdChars] : n \in 1..MaxIdLen }

Digits == << "0", "1", "2", "3", "4", "5", "6", "7", "8", "9" >>

IsDigit(c) == \E d \in 1..10 : Digits[d] = c

DigitValue(c) == (CHOOSE d \in 1..10 : Digits[d] = c) - 1

\* numbers as parseInt returns them: NaN, minus zero, or an integer
NaN == [ nan |-> TRUE ]

MinusZero == [ zero |-> "-" ]

Num(n) == [ num |-> n ]

\* how many digits str has from position i on, before the first other character
RECURSIVE DigitRun(_, _)
DigitRun(str, i) ==
  IF i > Len(str) \/ ~IsDigit(str[i]) THEN 0 ELSE 1 + DigitRun(str, i + 1)

RECURSIVE DigitsValue(_, _, _)
DigitsValue(str, i, n) ==
  IF n = 0 THEN 0
  ELSE 10 * DigitsValue(str, i, n - 1) + DigitValue(str[i + n - 1])

\* parseInt(str): an optional sign, then the longest run of digits; NaN when
\* there is no digit
parseInt(str) ==
  LET signed == Len(str) > 0 /\ str[1] \in { "-", "+" }
      from == IF signed THEN 2 ELSE 1
      n == DigitRun(str, from)
      v == DigitsValue(str, from, n)
  IN  IF n = 0 THEN NaN
      ELSE IF signed /\ str[1] = "-"
      THEN (IF v = 0 THEN MinusZero ELSE Num(0 - v))
      ELSE Num(v)

RECURSIVE NatToString(_)
NatToString(n) ==
  IF n < 10 THEN << Digits[n + 1] >>
  ELSE NatToString(n \div 10) \o << Digits[(n % 10) + 1] >>

\* a.toString()
toString(a) ==
  IF a = NaN THEN << "N", "a", "N" >>
  ELSE IF a = MinusZero THEN << "0" >>
  ELSE IF a.num < 0 THEN << "-" >> \o NatToString(0 - a.num)
  ELSE NatToString(a.num)

parseInteger(str) ==
  LET a == parseInt(str)
  IN  IF Len(toString(a)) = Len(str) THEN a ELSE Undefined

\* !idx
Falsy(v) == v = Undefined \/ v = NaN \/ v = MinusZero \/ v = Num(0)

(***************************************************************************)
(* The TTL cache: node-cache as constructed at src/index.js:54, behind     *)
(* _set and _get (src/index.js:656-667).                                   *)
(***************************************************************************)
\* node-cache's _check: an entry is expired once its time is behind the clock
Expired(entry, t) == entry.t < t

CacheGetUnexpiring(c, key, t) ==
  IF key \in DOMAIN c THEN c[key].v ELSE Undefined

\* this.cache.get(key): the value of a live entry, else undefined
CacheGet(c, key, t) ==
  IF key \in DOMAIN c /\ ~Expired(c[key], t) THEN c[key].v ELSE Undefined

\* ... and an expired entry is deleted by the read that finds it
CacheAfterGet(c, key, t) ==
  [ k \in { k \in DOMAIN c : ~(k = key /\ Expired(c[k], t)) } |-> c[k] ]

\* this.cache.set(key, data, ttl)
CacheSet(c, key, data, ttl, t) ==
  [ k \in DOMAIN c \cup { key } |->
      IF k = key THEN [ v |-> data, t |-> t + ttl ] ELSE c[k] ]

\* the periodic check (checkPeriod) deletes every expired entry
CacheSweep(c, t) == [ k \in { k \in DOMAIN c : ~Expired(c[k], t) } |-> c[k] ]

\* util.format('%s%s%s', node, port, method)
Key(node, port, method) == node \o port \o method

\* ttl = ttl || this.cacheTimeout; no caller passes a ttl
NoTtl == 0

SetCacheSkipped(c, node, port, method, data, ttl, t) == c

SetCacheFirstWins(c, node, port, method, data, ttl, t) ==
  IF Key(node, port, method) \in DOMAIN c THEN c
  ELSE CacheSet(c, Key(node, port, method), data,
                IF ttl = NoTtl THEN cacheTimeout ELSE ttl, t)

SetCache(c, node, port, method, data, ttl, t) ==
  CacheSet(c, Key(node, port, method), data,
           IF ttl = NoTtl THEN cacheTimeout ELSE ttl, t)

GetCache(c, node, port, method, t) ==
  LET ret == CacheGet(c, Key(node, port, method), t)
  IN  IF ~Truthy(ret) THEN False ELSE ret

(***************************************************************************)
(* What an upstream call can answer.                                       *)
(***************************************************************************)
NodeMethods == { "getinfo", "feeinfo", "getheight", "gettransactions", "getpeers" }

ExplorerMethods == { "f_on_transactions_pool_json", "getcurrencyid" }

NetworkAggregates == { "globalheight", "globaldifficulty" }

PoolAggregates == { "globalpoolheight", "globalpooldifficulty" }

\* the field a round reads from each result
FieldOf(name) ==
  IF name \in { "globalheight", "globalpoolheight" } THEN "height" ELSE "difficulty"

\* the operation a network round runs against each seed
NodeMethodOf(name) == IF name = "globalheight" THEN "getheight" ELSE "getinfo"

\* the decoded answer of the daemon to one method; of its fields only the
\* one the proxy reads is kept
Response(method, v) ==
  CASE method = "getheight" -> [ height |-> v, network_height |-> v ]
    [] method = "getinfo" -> [ difficulty |-> v ]
    [] OTHER -> [ status |-> "OK" ]

\* outcomes of one call: an answer, an answer without the expected body (a
\* pool answer without data.network), a transport error or timeout
Outcomes(method) ==
  { [ ok |-> TRUE, valid |-> TRUE, v |-> v ] :
      v \in IF method \in { "getheight", "getinfo", "networkInfo" }
            THEN 0..MaxHeight ELSE { 1 } }
  \cup (IF method = "networkInfo"
        THEN { [ ok |-> TRUE, valid |-> FALSE, v |-> 0 ] } ELSE { })
  \cup { [ ok |-> FALSE, valid |-> FALSE, v |-> 0 ] }

(***************************************************************************)
(* One cached call: _getInfo, _feeInfo, _getHeight, _getTransactions,      *)
(* _getPeers (kind "node"), getTransactionPool, getCurrencyId (kind        *)
(* "explorer") and _getPoolNetworkInfo (kind "pool").                      *)
(***************************************************************************)
\* the branch taken on `if (cache)`
HitPayloadUnmarked(kind, got) == got

HitPayload(kind, got) ==
  IF kind = "explorer" THEN got ELSE SetField(got, "cached", TRUE)

\* the synchronous part of a call: the executor reads the cache and either
\* resolves from it or issues the upstream request
BeginCall(kind, method, node, port, field, c, t) ==
  LET got == GetCache(c, node, port, method, t)
      key == Key(node, port, method)
  IN  [ kind |-> kind, method |-> method, node |-> node, port |-> port,
        field |-> field,
        host |-> IF kind = "node" THEN OrDefault(node, defaultHost)
                 ELSE IF kind = "pool" THEN port ELSE node,
        rport |-> IF kind = "node" THEN OrDefault(port, defaultPort) ELSE port,
        key |-> key,
        stale |-> key \in DOMAIN c /\ Expired(c[key], t),
        st |-> IF Truthy(got) THEN "hit" ELSE "pending",
        res |-> IF Truthy(got) THEN HitPayload(kind, got) ELSE Undefined ]

\* the options the upstream request of a call is made with: the object
\* handed to new TurtleCoind(...) by the node and explorer functions, and to
\* Request(...) by _getPoolNetworkInfo
RequestOptions(call) ==
  IF call.kind = "pool"
  THEN [ method |-> "GET", uri |-> call.port, json |-> TRUE, timeout |-> timeout ]
  ELSE [ host |-> call.host, port |-> call.rport ]

\* data, as the then-handler of the upstream call builds it
FreshPayload(call, v) ==
  CASE call.kind = "node" /\ call.method = "getinfo" ->
         [ difficulty |-> v, cached |-> FALSE,
           node |-> [ host |-> call.host, port |-> call.rport ],
           globalHashRate |-> MathRoundDiv(v, targetBlockTime) ]
    [] call.kind = "node" /\ call.method # "getinfo" ->
         Response(call.method, v)
           @@ [ cached |-> FALSE, node |-> [ host |-> call.host, port |-> call.rport ] ]
    [] call.kind = "explorer" /\ call.method = "getcurrencyid" ->
         [ currency_id_blob |-> v ]
    [] call.kind = "explorer" /\ call.method # "getcurrencyid" ->
         [ status |-> "OK", transactions |-> v ]
    [] call.kind = "pool" ->
         \* data.network, of which only the field the round reads is kept
         (call.field :> v)

StoredPayloadData(call, data) == data

\* what the then-handler hands to _set: _getPoolNetworkInfo passes no data
StoredPayload(call, data) == IF call.kind = "pool" THEN Undefined ELSE data

ErrorPayloadOfRequest(call) ==
  IF call.kind = "node"
  THEN [ error |-> "err", node |-> [ host |-> call.node, port |-> call.port ] ]
  ELSE [ error |-> "err" ]

\* what the catch-handler resolves with (an explorer call rejects instead)
ErrorPayload(call) ==
  IF call.kind = "node"
  THEN [ error |-> "err", node |-> [ host |-> call.host, port |-> call.rport ] ]
  ELSE [ error |-> "err" ]

\* the cache after the catch-handler, which never calls _set
CacheOnErrorStored(c, call, t) ==
  SetCache(c, call.node, call.port, call.method, ErrorPayload(call), NoTtl, t)

CacheOnError(c, call, t) == c

\* the call record once the upstream request has settled with outcome o
SettledCall(call, o) ==
  IF o.ok /\ o.valid
  THEN [ call EXCEPT !.st = "ok", !.res = FreshPayload(call, o.v) ]
  ELSE IF call.kind = "explorer"
  THEN [ call EXCEPT !.st = "rejected" ]
  ELSE IF o.ok
  THEN [ call EXCEPT !.st = "failed",
                     !.res = [ error |-> "Invalid data returned by remote host" ] ]
  ELSE [ call EXCEPT !.st = "failed", !.res = ErrorPayload(call) ]

\* the cache once the upstream request has settled with outcome o
CacheAfterSettle(c, call, o, t) ==
  IF o.ok /\ o.valid
  THEN SetCache(c, call.node, call.port, call.method,
                StoredPayload(call, FreshPayload(call, o.v)), NoTtl, t)
  ELSE IF o.ok THEN c
  ELSE CacheOnError(c, call, t)

(***************************************************************************)
(* The reduction of one aggregation round (src/index.js:1183-1206).        *)
(***************************************************************************)
\* the loop that skips results without a truthy value, pushing the others
RECURSIVE CollectValuesNoSkip(_, _)
CollectValuesNoSkip(results, field) ==
  IF results = << >> THEN << >>
  ELSE Append(CollectValuesNoSkip(Front(results), field),
              FieldOr0(results[Len(results)], field))

RECURSIVE CollectValues(_, _)
CollectValues(results, field) ==
  IF results = << >> THEN << >>
  ELSE LET rest == CollectValues(Front(results), field)
           last == results[Len(results)]
       IN  IF FieldOr0(last, field) = 0 THEN rest
           ELSE Append(rest, FieldOr0(last, field))

\* the data literal; the pool rounds set cnt to the number of values and
\* have no ans
AggData(name, values, results) ==
  LET vote == voteValue(values)
      base == [ max |-> maxValue(values), min |-> minValue(values),
                avg |-> avgValue(values), med2 |-> medValue2(values),
                conNum |-> vote.conNum, conDen |-> vote.conDen,
                win |-> vote.value, cached |-> FALSE ]
  IN  IF name \in NetworkAggregates
      THEN base @@ [ cnt |-> Len(results), ans |-> Len(values) ]
      ELSE base @@ [ cnt |-> Len(values) ]

Scope(name) == IF name \in NetworkAggregates THEN "network" ELSE "pool"

\* what the round resolves with: maxValue throws on no values, and the
\* catch-handler resolves {error: err}
RoundResult(name, results) ==
  LET values == CollectValues(results, FieldOf(name))
  IN  IF ReduceThrows(values) THEN [ error |-> "TypeError" ]
      ELSE AggData(name, values, results)

CacheAfterRound(c, name, results, t) ==
  LET data == RoundResult(name, results)
  IN  IF IsError(data) THEN c
      ELSE SetCache(c, Scope(name), Scope(name), name, data, NoTtl, t)

(***************************************************************************)
(* State.                                                                  *)
(***************************************************************************)
VARIABLES
  samples,   \* the array handed to the helper functions
  voter,     \* what voteValue(samples) returned, or NotCalled
  stats,     \* what maxValue/minValue/avgValue/medValue returned
  now,       \* the clock, in seconds
  cache,     \* this.cache: key -> [v: the value, t: when it expires]
  pools,     \* this.pools
  tasks,     \* the requests and rounds in flight or just answered
  started,   \* how many requests and rounds were started
  workload,  \* the operations that clients and timers invoke in this behaviour
  idx,       \* request.params.idx of a request to /block/:idx or /block/header/:idx
  lookup,    \* the lookup that request was routed to, or NotCalled
  timers,    \* the interval timers: how often each fired, and the runs in flight
  blockCacheReady  \* this.blockCacheReady

statVars == << samples, voter, stats >>

proxyVars == << now, cache, pools, tasks, started, workload >>

routeVars == << idx, lookup >>

sideVars == << timers, blockCacheReady >>

vars ==
  << samples, voter, stats, now, cache, pools, tasks, started, workload,
     idx, lookup, timers, blockCacheReady >>

NotCalled == [ called |-> FALSE ]

Idle == [ pc |-> "idle" ]

EmptyCache == [ k \in { } |-> Undefined ]

\* the interval callbacks of the constructor
Producers == { "seedDataUpdater", "poolDataUpdater", "poolUpdater" }

NoTimers == [ fired |-> [ p \in Producers |-> 0 ], runs |-> << >> ]

\* two requests or rounds can be in flight at once
Slots == { 1, 2 }

\* an answer is handed to the caller in the step that produces it: the step
\* after, the request is gone
Answered == [ t \in Slots |-> IF tasks[t].pc = "done" THEN Idle ELSE tasks[t] ]

\* the slot a new request takes: the first one with nothing in flight
FreeSlot(t) ==
  /\ tasks[t].pc # "wait"
  /\ \A u \in Slots : u < t => tasks[u].pc = "wait"

Pending(task) == { i \in 1..Len(task.calls) : task.calls[i].st = "pending" }

Results(calls) == [ i \in 1..Len(calls) |-> calls[i].res ]

\* the status the route's handler answers with: response.json(data) from
\* then, response.status(500).send() from catch
HttpStatus(task) == IF task.rejected THEN 500 ELSE 200

(***************************************************************************)
(* The helper functions applied to one array.                              *)
(***************************************************************************)
InitProxy ==
  /\ now = 0
  /\ cache = EmptyCache
  /\ pools = << >>
  /\ tasks = [ t \in Slots |-> Idle ]
  /\ started = 0
  /\ timers = NoTimers
  /\ blockCacheReady = FALSE

InitStats ==
  /\ samples \in SampleLists
  /\ voter = NotCalled
  /\ stats = NotCalled
  /\ InitProxy
  /\ workload = { }
  /\ idx = << >>
  /\ lookup = NotCalled

CallVoteValue ==
  /\ voter = NotCalled
  /\ voter' = [ called |-> TRUE, ret |-> voteValue(samples) ]
  /\ UNCHANGED << samples, stats >>
  /\ UNCHANGED << proxyVars, routeVars, sideVars >>

\* max: maxValue(heights), min: ..., avg: ..., med: ... of one data literal
CallStats ==
  /\ stats = NotCalled
  /\ stats' =
       IF ReduceThrows(samples) THEN [ called |-> TRUE, threw |-> TRUE ]
       ELSE [ called |-> TRUE, threw |-> FALSE,
              max |-> maxValue(samples), min |-> minValue(samples),
              avg |-> avgValue(samples), med2 |-> medValue2(samples) ]
  /\ UNCHANGED << samples, voter >>
  /\ UNCHANGED << proxyVars, routeVars, sideVars >>

NextStats == CallVoteValue \/ CallStats

SpecStats == InitStats /\ [][NextStats]_vars

(***************************************************************************)
(* The routes /block/:idx and /block/header/:idx (src/index.js:481-547).   *)
(***************************************************************************)
InitRoutes ==
  /\ samples = << >>
  /\ voter = NotCalled
  /\ stats = NotCalled
  /\ InitProxy
  /\ workload = { }
  /\ idx \in Identifiers
  /\ lookup = NotCalled

\* the lookup a route makes for request.params.idx
RouteIdx(byHash, byHeight) ==
  LET parsed == parseInteger(idx)
  IN  IF Falsy(parsed)
      THEN [ called |-> TRUE, op |-> byHash, hash |-> idx ]
      ELSE [ called |-> TRUE, op |-> byHeight, height |-> parsed.num ]

GetBlockHeaderIdx ==
  /\ lookup = NotCalled
  /\ lookup' = RouteIdx("getBlockHeaderByHash", "getBlockHeaderByHeight")
  /\ UNCHANGED << idx, statVars, proxyVars, sideVars >>

GetBlockIdx ==
  /\ lookup = NotCalled
  /\ lookup' = RouteIdx("getBlock", "getBlockHash")
  /\ UNCHANGED << idx, statVars, proxyVars, sideVars >>

NextRoutes == GetBlockHeaderIdx \/ GetBlockIdx

SpecRoutes == InitRoutes /\ [][NextRoutes]_vars

(***************************************************************************)
(* The proxy: requests, aggregation rounds, the clock and the timers.      *)
(***************************************************************************)
\* The operations that share no cache key do not meet: a behaviour exercises
\* one operation, or one round together with the per-node operation it runs.
Workloads ==
  { { m } : m \in (NodeMethods \ { "getheight", "getinfo" }) \cup ExplorerMethods }
  \cup { { name, NodeMethodOf(name) } : name \in NetworkAggregates }
  \cup { { name, "getPools" } : name \in PoolAggregates }

Init ==
  /\ samples = << >>
  /\ voter = NotCalled
  /\ stats = NotCalled
  /\ InitProxy
  /\ workload \in Workloads
  /\ idx = << >>
  /\ lookup = NotCalled

\* (node, port) as the routes pass them: none (the default node), or a seed
ReqTargets ==
  { [ node |-> Undef, port |-> Undef ],
    [ node |-> seeds[1].host, port |-> seeds[1].port ] }

\* opts.host and opts.port as the explorer routes pass them
ExplorerTargets == { [ node |-> defaultHost, port |-> defaultPort ] }

\* a request for one cached call, up to the end of the promise executor
StartSingle(kind, method, target) ==
  \E t \in Slots :
    /\ started < MaxStarts
    /\ method \in workload
    /\ FreeSlot(t)
    /\ LET call == BeginCall(kind, method, target.node, target.port, "", cache, now)
       IN  /\ tasks' = [ Answered EXCEPT ![t] =
                 [ pc |-> IF call.st = "hit" THEN "done" ELSE "wait",
                   op |-> method, kind |-> kind, key |-> call.key,
                   hit |-> call.st = "hit", stale |-> call.stale,
                   calls |-> << call >>, rejected |-> FALSE,
                   ret |-> call.res ] ]
           /\ cache' = CacheAfterGet(cache, call.key, now)
    /\ started' = started + 1
    /\ UNCHANGED << now, pools, workload >>
    /\ UNCHANGED << statVars, routeVars, sideVars >>

StartNode == \E m \in NodeMethods, a \in ReqTargets : StartSingle("node", m, a)

StartExplorer ==
  \E m \in ExplorerMethods, a \in ExplorerTargets : StartSingle("explorer", m, a)

\* the per-node calls a round issues: one per seed, or one per pool
RoundCalls(name, c, t) ==
  IF name \in NetworkAggregates
  THEN [ i \in 1..Len(seeds) |->
           BeginCall("node", NodeMethodOf(name), seeds[i].host, seeds[i].port,
                     FieldOf(name), c, t) ]
  ELSE [ i \in 1..Len(pools) |->
           BeginCall("pool", "networkInfo", "pool", pools[i].url,
                     FieldOf(name), c, t) ]

RECURSIVE CacheAfterGets(_, _, _)
CacheAfterGets(c, calls, t) ==
  IF calls = << >> THEN c
  ELSE CacheAfterGet(CacheAfterGets(c, Front(calls), t), calls[Len(calls)].key, t)

\* _getGlobalHeight, _getGlobalDifficulty, _getGlobalPoolHeight and
\* _getGlobalPoolDifficulty up to the end of the promise executor; a round
\* with no call left to wait for reduces at once
StartRound ==
  \E name \in NetworkAggregates \cup PoolAggregates, t \in Slots :
    /\ started < MaxStarts
    /\ name \in workload
    /\ FreeSlot(t)
    /\ LET key == Key(Scope(name), Scope(name), name)
           got == GetCache(cache, Scope(name), Scope(name), name, now)
           stale == key \in DOMAIN cache /\ Expired(cache[key], now)
           c1 == CacheAfterGet(cache, key, now)
           calls == RoundCalls(name, c1, now)
           c2 == CacheAfterGets(c1, calls, now)
           waits == \E i \in 1..Len(calls) : calls[i].st = "pending"
       IN  IF Truthy(got)
           THEN /\ tasks' = [ Answered EXCEPT ![t] =
                      [ pc |-> "done", op |-> name, kind |-> "aggregate",
                        key |-> key, hit |-> TRUE, stale |-> stale,
                        calls |-> << >>, rejected |-> FALSE,
                        ret |-> HitPayload("aggregate", got) ] ]
                /\ cache' = c1
           ELSE /\ tasks' = [ Answered EXCEPT ![t] =
                      [ pc |-> IF waits THEN "wait" ELSE "done",
                        op |-> name, kind |-> "aggregate",
                        key |-> key, hit |-> FALSE, stale |-> stale,
                        calls |-> calls, rejected |-> FALSE,
                        ret |-> IF waits THEN Undefined
                                ELSE RoundResult(name, Results(calls)) ] ]
                /\ cache' = IF waits THEN c2
                            ELSE CacheAfterRound(c2, name, Results(calls), now)
    /\ started' = started + 1
    /\ UNCHANGED << now, pools, workload >>
    /\ UNCHANGED << statVars, routeVars, sideVars >>

FirstSettled(calls) == TRUE

\* Promise.all(promises) resolves once every promise of the round has
\* resolved (none rejects: a failed call resolves to an error payload)
AllSettled(calls) == \A j \in 1..Len(calls) : calls[j].st # "pending"

\* one upstream call settles: its then- or catch-handler runs, and with it
\* the handler of the request or (after the last call of a round) of
\* Promise.all
Settle ==
  \E t \in Slots :
    /\ tasks[t].pc = "wait"
    /\ \E i \in Pending(tasks[t]) :
         \E o \in Outcomes(tasks[t].calls[i].method) :
           LET task == tasks[t]
               call == SettledCall(task.calls[i], o)
               calls == [ task.calls EXCEPT ![i] = call ]
               c1 == CacheAfterSettle(cache, task.calls[i], o, now)
               last == AllSettled(calls)
           IN  IF task.kind = "aggregate"
               THEN /\ tasks' = [ Answered EXCEPT ![t] =
                          [ task EXCEPT
                              !.calls = calls,
                              !.pc = IF last THEN "done" ELSE "wait",
                              !.ret = IF last
                                      THEN RoundResult(task.op, Results(calls))
                                      ELSE Undefined ] ]
                    /\ cache' = IF last
                                THEN CacheAfterRound(c1, task.op, Results(calls), now)
                                ELSE c1
               ELSE /\ tasks' = [ Answered EXCEPT ![t] =
                          [ task EXCEPT
                              !.calls = calls, !.pc = "done",
                              !.rejected = (call.st = "rejected"),
                              !.ret = call.res ] ]
                    /\ cache' = c1
    /\ UNCHANGED << now, pools, started, workload >>
    /\ UNCHANGED << statVars, routeVars, sideVars >>

\* The clock advances in steps longer than any upstream call takes (calls
\* time out after seconds): no call is in flight across a step.
Tick ==
  /\ now < MaxTicks * TickStep
  /\ \A t \in Slots : tasks[t].pc # "wait"
  /\ now' = now + TickStep
  /\ tasks' = Answered
  /\ UNCHANGED << cache, pools, started, workload >>
  /\ UNCHANGED << statVars, routeVars, sideVars >>

\* the periodic check of node-cache
Sweep ==
  /\ \E k \in DOMAIN cache : Expired(cache[k], now)
  /\ cache' = CacheSweep(cache, now)
  /\ tasks' = Answered
  /\ UNCHANGED << now, pools, started, workload >>
  /\ UNCHANGED << statVars, routeVars, sideVars >>

\* what the directory can list at the time of a refresh: both pools, or the
\* second alone after the first was delisted
DirectoryLists == { DirectoryPools, Tail(DirectoryPools) }

\* how the request of _getPoolList ends: with a list, or with an error
PoolListOutcomes ==
  { [ ok |-> TRUE, list |-> l ] : l \in DirectoryLists }
    \cup { [ ok |-> FALSE, list |-> << >> ] }

PoolsClearedOnError(ps, o) == o.list

\* that.pools after the then- or the catch-handler of getPools
PoolsAfterRefresh(ps, o) == IF o.ok THEN o.list ELSE ps

\* getPools: the pool list is replaced when _getPoolList resolves and left
\* alone when it rejects
GetPools ==
  /\ "getPools" \in workload
  /\ \E o \in PoolListOutcomes : pools' = PoolsAfterRefresh(pools, o)
  /\ tasks' = Answered
  /\ UNCHANGED << now, cache, started, workload >>
  /\ UNCHANGED << statVars, routeVars, sideVars >>

Next ==
  \/ StartNode
  \/ StartExplorer
  \/ StartRound
  \/ Settle
  \/ Tick
  \/ Sweep
  \/ GetPools

Spec == Init /\ [][Next]_vars

(***************************************************************************)
(* The block explorer functions (src/index.js:910-1129): the mirror        *)
(* this.blockCache first, then the daemon.                                 *)
(***************************************************************************)
\* the functions that ask the mirror and fall back to the daemon
FallbackOps ==
  { "getBlocks", "getBlock", "getTransaction", "getBlockHash",
    "getLastBlockHeader", "getBlockHeaderByHash", "getBlockHeaderByHeight" }

MirrorOps == FallbackOps \cup { "getBlockCount", "getTransactionHashesByPaymentId" }

\* the counts the mirror answers getBlockCount with: around the largest
\* height a daemon reports plus or minus maxDeviance
MirrorCounts == (maxDeviance - 1)..(maxDeviance + MaxHeight + 1)

\* what a call of the mirror can do: resolve with data, or reject
MirrorOutcomes(op) ==
  { [ ok |-> TRUE, v |-> v ] :
      v \in IF op = "getBlockCount" THEN MirrorCounts ELSE { 1 } }
  \cup { [ ok |-> FALSE, v |-> 0 ] }

\* the data the mirror resolves with
MirrorData(op, v) ==
  IF op = "getBlockCount" THEN [ count |-> v ]
  ELSE [ data |-> v, from |-> "mirror" ]

\* what a call of the daemon can do: resolve with data, or reject
DaemonOutcomes == { [ ok |-> TRUE, v |-> 1 ], [ ok |-> FALSE, v |-> 0 ] }

\* what the function resolves with from the daemon's data
DaemonData(op, v) ==
  IF op = "getBlockCount" THEN [ count |-> v, status |-> "OK" ]
  ELSE [ data |-> v, from |-> "daemon" ]

Abs(x) == IF x < 0 THEN 0 - x ELSE x

\* Math.abs(networkHeight - block.count) > this.maxDeviance, networkHeight
\* being data.network_height: with no such field the difference is NaN and
\* the comparison false
Deviates(data, block) ==
  IF "network_height" \in DOMAIN data
  THEN Abs(data.network_height - block.count) > maxDeviance
  ELSE FALSE

NoCall == [ st |-> "none" ]

\* rpc.<method>(...) of a TurtleCoind for opts.host and opts.port, issued
DaemonCall(method, host, port) ==
  [ st |-> "pending", method |-> method, host |-> host, port |-> port,
    res |-> Undefined ]

NewQueryDaemonFirst(op, host, port, c, t) ==
  [ pc |-> "wait", op |-> op, kind |-> "mirror", host |-> host, port |-> port,
    stage |-> "fallback", height |-> NoCall, mirror |-> NoCall,
    fallback |-> DaemonCall(op, host, port), log |-> << "daemon" >>,
    calls |-> << >>, hit |-> FALSE, rejected |-> FALSE, reason |-> "",
    ret |-> Undefined ]

\* the request of an explorer function, up to the end of the promise
\* executor: getBlockCount starts with this._getHeight(), the others with
\* the call of the mirror
NewQuery(op, host, port, c, t) ==
  LET height == BeginCall("node", "getheight", Undef, Undef, "", c, t)
      asked == op = "getBlockCount" /\ height.st = "pending"
  IN  [ pc |-> "wait", op |-> op, kind |-> "mirror", host |-> host, port |-> port,
        stage |-> IF asked THEN "height" ELSE "mirror",
        height |-> IF op = "getBlockCount" THEN height ELSE NoCall,
        mirror |-> NoCall, fallback |-> NoCall,
        log |-> IF asked THEN << "daemon" >> ELSE << "mirror" >>,
        calls |-> << >>, hit |-> FALSE, rejected |-> FALSE, reason |-> "",
        ret |-> Undefined ]

StartQuery(op, host, port) ==
  \E t \in Slots :
    /\ started < MaxStarts
    /\ op \in workload
    /\ FreeSlot(t)
    /\ tasks' = [ Answered EXCEPT ![t] = NewQuery(op, host, port, cache, now) ]
    /\ cache' = IF op = "getBlockCount"
                THEN CacheAfterGet(cache, Key(Undef, Undef, "getheight"), now)
                ELSE cache
    /\ started' = started + 1
    /\ UNCHANGED << now, pools, workload >>
    /\ UNCHANGED << statVars, routeVars, sideVars >>

\* the REST routes of the block explorer pass the default node
RestQuery == \E op \in MirrorOps : StartQuery(op, defaultHost, defaultPort)

\* the then- or catch-handler of this._getHeight() inside getBlockCount: the
\* height call has settled and the mirror is asked
SettleHeight ==
  \E t \in Slots :
    /\ tasks[t].pc = "wait" /\ tasks[t].kind = "mirror"
    /\ tasks[t].stage = "height"
    /\ \E o \in Outcomes("getheight") :
         /\ tasks' = [ Answered EXCEPT ![t] =
              [ tasks[t] EXCEPT
                  !.height = SettledCall(tasks[t].height, o),
                  !.stage = "mirror",
                  !.log = Append(tasks[t].log, "mirror") ] ]
         /\ cache' = CacheAfterSettle(cache, tasks[t].height, o, now)
    /\ UNCHANGED << now, pools, started, workload >>
    /\ UNCHANGED << statVars, routeVars, sideVars >>

\* the call of the mirror, settled with outcome m
MirrorCall(op, m) ==
  IF m.ok THEN [ st |-> "ok", res |-> MirrorData(op, m.v) ] ELSE [ st |-> "failed" ]

AfterMirrorNoFallback(task, m) ==
  IF m.ok
  THEN [ task EXCEPT !.pc = "done", !.stage = "done",
                     !.mirror = MirrorCall(task.op, m),
                     !.log = Append(task.log, "mirror ok"),
                     !.ret = MirrorData(task.op, m.v) ]
  ELSE [ task EXCEPT !.pc = "done", !.stage = "done",
                     !.mirror = MirrorCall(task.op, m),
                     !.log = Append(task.log, "mirror failed"),
                     !.rejected = TRUE, !.reason = "Failure encountered" ]

AfterMirrorAlwaysFallback(task, m) ==
  [ task EXCEPT !.stage = "fallback",
                !.mirror = MirrorCall(task.op, m),
                !.log = task.log \o << IF m.ok THEN "mirror ok"
                                       ELSE "mirror failed", "daemon" >>,
                !.fallback = DaemonCall(task.op, task.host, task.port) ]

\* the task once the mirror has settled with outcome m
AfterMirror(task, m) ==
  IF m.ok /\ ~(task.op = "getBlockCount"
               /\ Deviates(task.height.res, MirrorData(task.op, m.v)))
  THEN [ task EXCEPT !.pc = "done", !.stage = "done",
                     !.mirror = MirrorCall(task.op, m),
                     !.log = Append(task.log, "mirror ok"),
                     !.ret = MirrorData(task.op, m.v) ]
  ELSE IF task.op = "getTransactionHashesByPaymentId"
  THEN [ task EXCEPT !.pc = "done", !.stage = "done",
                     !.mirror = MirrorCall(task.op, m),
                     !.log = Append(task.log, "mirror failed"),
                     !.rejected = TRUE, !.reason = "Failure encountered" ]
  ELSE [ task EXCEPT !.stage = "fallback",
                     !.mirror = MirrorCall(task.op, m),
                     !.log = task.log \o << IF m.ok THEN "mirror discarded"
                                            ELSE "mirror failed", "daemon" >>,
                     !.fallback = DaemonCall(task.op, task.host, task.port) ]

\* the mirror resolves or rejects
MirrorAnswers ==
  \E t \in Slots :
    /\ tasks[t].pc = "wait" /\ tasks[t].kind = "mirror"
    /\ tasks[t].stage = "mirror"
    /\ \E m \in MirrorOutcomes(tasks[t].op) :
         tasks' = [ Answered EXCEPT ![t] = AfterMirror(tasks[t], m) ]
    /\ UNCHANGED << now, cache, pools, started, workload >>
    /\ UNCHANGED << statVars, routeVars, sideVars >>

\* the task once its call of the daemon has settled with outcome o
AfterFallback(task, o) ==
  IF o.ok
  THEN [ task EXCEPT !.pc = "done", !.stage = "done",
                     !.fallback = [ task.fallback EXCEPT !.st = "ok",
                                                         !.res = Num(o.v) ],
                     !.ret = DaemonData(task.op, o.v) ]
  ELSE [ task EXCEPT !.pc = "done", !.stage = "done",
                     !.fallback = [ task.fallback EXCEPT !.st = "failed" ],
                     !.rejected = TRUE, !.reason = "Failure encountered" ]

\* the daemon answers the fallback call, or the call fails
SettleFallback ==
  \E t \in Slots :
    /\ tasks[t].pc = "wait" /\ tasks[t].kind = "mirror"
    /\ tasks[t].stage = "fallback"
    /\ \E o \in DaemonOutcomes :
         tasks' = [ Answered EXCEPT ![t] = AfterFallback(tasks[t], o) ]
    /\ UNCHANGED << now, cache, pools, started, workload >>
    /\ UNCHANGED << statVars, routeVars, sideVars >>

(***************************************************************************)
(* _processJsonRPC (src/index.js:803-903) and the functions that only call *)
(* the daemon: _jsonRpc, getBlockTemplate, submitBlock.                    *)
(***************************************************************************)
\* the switch of _processJsonRPC: method -> the function it returns
DispatchTable ==
  [ f_blocks_list_json |-> "getBlocks",
    f_block_json |-> "getBlock",
    f_transaction_json |-> "getTransaction",
    getblockcount |-> "getBlockCount",
    on_getblockhash |-> "getBlockHash",
    getlastblockheader |-> "getLastBlockHeader",
    getblockheaderbyhash |-> "getBlockHeaderByHash",
    getblockheaderbyheight |-> "getBlockHeaderByHeight",
    f_on_transactions_pool_json |-> "f_on_transactions_pool_json",
    getblocktemplate |-> "getBlockTemplate",
    submitblock |-> "submitBlock",
    getcurrencyid |-> "getcurrencyid",
    f_gettransactionsbypaymentid |-> "getTransactionHashesByPaymentId" ]

\* a method no case of the switch names
OtherMethod == "getstatus"

Dispatch(method) ==
  IF method \in DOMAIN DispatchTable THEN DispatchTable[method] ELSE "_jsonRpc"

\* the cases that read a member of content.params
ReadsParams(method) ==
  method \in DOMAIN DispatchTable
    \ { "getblockcount", "getlastblockheader", "f_on_transactions_pool_json",
        "getcurrencyid" }

\* request.body: with or without a method, with or without params
RpcContents ==
  { [ method |-> m, params |-> q ] :
      m \in { Undef, OtherMethod } \cup DOMAIN DispatchTable,
      q \in { Undef, "params" } }

NoMethodNever(content) == FALSE

\* if (!content.method)
NoMethod(content) == content.method = Undef

\* the functions that return the promise of one call of the daemon
DirectOps == { "_jsonRpc", "getBlockTemplate", "submitBlock" }

DirectCallToDefault(content, host, port) ==
  [ st |-> "pending", method |-> content.method, params |-> content.params,
    host |-> defaultHost, port |-> defaultPort, res |-> Undefined ]

\* rpc._post(opts.method, opts.params), rpc.getBlockTemplate(...) and
\* rpc.submitBlock(...) of a TurtleCoind for the node of the request
DirectCall(content, host, port) ==
  [ st |-> "pending", method |-> content.method, params |-> content.params,
    host |-> host, port |-> port, res |-> Undefined ]

RpcTaskKnownOnly(content, a) ==
  LET host == OrDefault(a.node, defaultHost)
      port == OrDefault(a.port, defaultPort)
      base == [ pc |-> "done", op |-> "_processJsonRPC", kind |-> "rpc",
                req |-> [ content |-> content, node |-> a.node, port |-> a.port ],
                host |-> host, port |-> port, stage |-> "done",
                height |-> NoCall, mirror |-> NoCall, fallback |-> NoCall,
                log |-> << >>,
                calls |-> << >>, hit |-> FALSE, rejected |-> TRUE,
                reason |-> "", ret |-> Undefined ]
  IN  IF content.method \notin DOMAIN DispatchTable
      THEN [ base EXCEPT !.reason = "No method defined" ]
      ELSE IF ReadsParams(content.method) /\ content.params = Undef
      THEN [ base EXCEPT !.reason = "TypeError" ]
      ELSE [ base EXCEPT !.pc = "wait", !.op = Dispatch(content.method),
                         !.stage = "direct", !.rejected = FALSE,
                         !.log = << "daemon" >>,
                         !.fallback = DirectCall(content, host, port) ]

\* a request that _processJsonRPC answers itself or hands to a DirectOp
RpcTask(content, a) ==
  LET host == OrDefault(a.node, defaultHost)
      port == OrDefault(a.port, defaultPort)
      base == [ pc |-> "done", op |-> "_processJsonRPC", kind |-> "rpc",
                req |-> [ content |-> content, node |-> a.node, port |-> a.port ],
                host |-> host, port |-> port, stage |-> "done",
                height |-> NoCall, mirror |-> NoCall, fallback |-> NoCall,
                log |-> << >>,
                calls |-> << >>, hit |-> FALSE, rejected |-> TRUE,
                reason |-> "", ret |-> Undefined ]
  IN  IF NoMethod(content)
      THEN [ base EXCEPT !.reason = "No method defined" ]
      ELSE IF ReadsParams(content.method) /\ content.params = Undef
      THEN [ base EXCEPT !.reason = "TypeError" ]
      ELSE [ base EXCEPT !.pc = "wait", !.op = Dispatch(content.method),
                         !.stage = "direct", !.rejected = FALSE,
                         !.log = << "daemon" >>,
                         !.fallback = DirectCall(content, host, port) ]

\* POST /json_rpc, /:node/json_rpc and /:node/:port/json_rpc
ProcessJsonRPC ==
  \E content \in RpcContents, a \in ReqTargets :
    LET op == Dispatch(content.method)
        host == OrDefault(a.node, defaultHost)
        port == OrDefault(a.port, defaultPort)
        thrown == NoMethod(content)
                    \/ (ReadsParams(content.method) /\ content.params = Undef)
    IN  \/ /\ thrown \/ op \in DirectOps
           /\ "json_rpc" \in workload
           /\ \E t \in Slots :
                /\ started < MaxStarts
                /\ FreeSlot(t)
                /\ tasks' = [ Answered EXCEPT ![t] = RpcTask(content, a) ]
           /\ started' = started + 1
           /\ UNCHANGED << now, cache, pools, workload >>
           /\ UNCHANGED << statVars, routeVars, sideVars >>
        \/ /\ ~thrown /\ op \in MirrorOps
           /\ StartQuery(op, host, port)
        \/ /\ ~thrown /\ op \in ExplorerMethods
           /\ StartSingle("explorer", op, [ node |-> host, port |-> port ])

\* the task once the daemon has settled the call with outcome o
AfterDirect(task, o) ==
  IF o.ok
  THEN [ task EXCEPT !.pc = "done", !.stage = "done",
                     !.fallback = [ task.fallback EXCEPT !.st = "ok",
                                                         !.res = Num(o.v) ],
                     !.ret = [ data |-> o.v, from |-> "daemon" ] ]
  ELSE [ task EXCEPT !.pc = "done", !.stage = "done",
                     !.fallback = [ task.fallback EXCEPT !.st = "failed" ],
                     !.rejected = TRUE, !.reason = "err" ]

SettleDirect ==
  \E t \in Slots :
    /\ tasks[t].pc = "wait" /\ tasks[t].kind = "rpc"
    /\ tasks[t].stage = "direct"
    /\ \E o \in DaemonOutcomes :
         tasks' = [ Answered EXCEPT ![t] = AfterDirect(tasks[t], o) ]
    /\ UNCHANGED << now, cache, pools, started, workload >>
    /\ UNCHANGED << statVars, routeVars, sideVars >>

\* A behaviour exercises one explorer function, or the requests that
\* _processJsonRPC answers itself or hands to a DirectOp.
ExplorerWorkloads ==
  { { op } : op \in MirrorOps \cup ExplorerMethods } \cup { { "json_rpc" } }

InitExplorer ==
  /\ samples = << >>
  /\ voter = NotCalled
  /\ stats = NotCalled
  /\ InitProxy
  /\ workload \in ExplorerWorkloads
  /\ idx = << >>
  /\ lookup = NotCalled

\* this.blockCache.on('ready', ...): the mirror emits its ready signal
BlockCacheReady ==
  /\ ~blockCacheReady
  /\ blockCacheReady' = TRUE
  /\ tasks' = Answered
  /\ UNCHANGED << now, cache, pools, started, workload >>
  /\ UNCHANGED << statVars, routeVars, timers >>

NextExplorer ==
  \/ BlockCacheReady
  \/ RestQuery
  \/ StartExplorer
  \/ ProcessJsonRPC
  \/ SettleHeight
  \/ MirrorAnswers
  \/ SettleFallback
  \/ SettleDirect
  \/ Settle

SpecExplorer == InitExplorer /\ [][NextExplorer]_vars

(***************************************************************************)
(* The routes /:node/:port/<method> (src/index.js:128-136 and the like),   *)
(* asked for nodes whose names and ports differ.                           *)
(***************************************************************************)
\* request.params.node and request.params.port of three requests: a seed,
\* and two hosts that differ in their last digit
KeyTargets ==
  { [ node |-> seeds[1].host, port |-> seeds[1].port ],
    [ node |-> "10.0.0.1", port |-> "11898" ],
    [ node |-> "10.0.0.11", port |-> "1898" ] }

StartKeyed == \E m \in NodeMethods, a \in KeyTargets : StartSingle("node", m, a)

InitKeys ==
  /\ samples = << >>
  /\ voter = NotCalled
  /\ stats = NotCalled
  /\ InitProxy
  /\ workload \in { { m } : m \in NodeMethods }
  /\ idx = << >>
  /\ lookup = NotCalled

NextKeys ==
  \/ StartKeyed
  \/ Settle
  \/ Tick
  \/ Sweep

SpecKeys == InitKeys /\ [][NextKeys]_vars

(***************************************************************************)
(* The interval timers of the constructor (src/index.js:614-640): getPools *)
(* every hour, the two network rounds and the two pool rounds every        *)
(* Math.round(cacheTimeout / 2) seconds.  No callback looks at the runs    *)
(* it launched before.                                                     *)
(***************************************************************************)
\* times one timer fires in a behaviour (the call the constructor makes
\* before it sets the interval counts as the first)
MaxFires == 2

\* the functions a callback calls, in order
Launches(p) ==
  CASE p = "seedDataUpdater" -> << "globalheight", "globaldifficulty" >>
    [] p = "poolDataUpdater" -> << "globalpoolheight", "globalpooldifficulty" >>
    [] p = "poolUpdater" -> << "getPools" >>

RemoveAt(s, i) == SubSeq(s, 1, i - 1) \o SubSeq(s, i + 1, Len(s))

\* one round called from a callback, up to the end of its promise executor:
\* st is the cache and the runs in flight, before and after
LaunchRound(st, name, by) ==
  LET key == Key(Scope(name), Scope(name), name)
      got == GetCache(st.cache, Scope(name), Scope(name), name, now)
      c1 == CacheAfterGet(st.cache, key, now)
      calls == RoundCalls(name, c1, now)
      c2 == CacheAfterGets(c1, calls, now)
      waits == \E i \in 1..Len(calls) : calls[i].st = "pending"
  IN  IF Truthy(got) THEN [ cache |-> c1, runs |-> st.runs ]
      ELSE IF waits
      THEN [ cache |-> c2,
             runs |-> Append(st.runs, [ by |-> by, op |-> name, calls |-> calls ]) ]
      ELSE [ cache |-> CacheAfterRound(c2, name, Results(calls), now),
             runs |-> st.runs ]

\* the callback of seedDataUpdater or poolDataUpdater
DataUpdater(p) ==
  /\ p \in workload
  /\ timers.fired[p] < MaxFires
  /\ LET s0 == [ cache |-> cache, runs |-> timers.runs ]
         s1 == LaunchRound(s0, Launches(p)[1], p)
         s2 == LaunchRound(s1, Launches(p)[2], p)
     IN  /\ cache' = s2.cache
         /\ timers' = [ fired |-> [ timers.fired EXCEPT ![p] = @ + 1 ],
                        runs |-> s2.runs ]
  /\ UNCHANGED << now, pools, tasks, started, workload >>
  /\ UNCHANGED << statVars, routeVars, blockCacheReady >>

SeedDataUpdater == DataUpdater("seedDataUpdater")

PoolDataUpdater == DataUpdater("poolDataUpdater")

\* the request _getPoolList makes, issued
PoolListCall ==
  [ kind |-> "list", method |-> "poolList", st |-> "pending", res |-> Undefined ]

\* getPools, the callback of poolUpdater: up to the request of the pool list
PoolUpdater ==
  /\ "poolUpdater" \in workload
  /\ timers.fired["poolUpdater"] < MaxFires
  /\ timers' = [ fired |-> [ timers.fired EXCEPT !["poolUpdater"] = @ + 1 ],
                 runs |-> Append(timers.runs,
                                 [ by |-> "poolUpdater", op |-> "getPools",
                                   calls |-> << PoolListCall >> ]) ]
  /\ UNCHANGED << now, cache, pools, tasks, started, workload >>
  /\ UNCHANGED << statVars, routeVars, blockCacheReady >>

\* what a call of a run can answer: the largest height or difficulty, an
\* answer without the expected body, or an error
RunOutcomes(method) == { o \in Outcomes(method) : o.valid => o.v = MaxHeight }

\* one upstream call of a run settles: the pool list replaces this.pools or
\* the error is emitted; a per-node call runs its handler and, when it was
\* the last of its round, the handler of Promise.all
SettleRun ==
  /\ UNCHANGED << now, tasks, started, workload >>
  /\ UNCHANGED << statVars, routeVars, blockCacheReady >>
  /\ \E r \in 1..Len(timers.runs) :
    LET run == timers.runs[r]
    IN  \E i \in Pending(run) :
          \E o \in RunOutcomes(run.calls[i].method) :
            IF run.op = "getPools"
            THEN /\ pools' = IF o.ok THEN DirectoryPools ELSE pools
                 /\ timers' = [ timers EXCEPT !.runs = RemoveAt(timers.runs, r) ]
                 /\ UNCHANGED cache
            ELSE LET call == SettledCall(run.calls[i], o)
                     calls == [ run.calls EXCEPT ![i] = call ]
                     c1 == CacheAfterSettle(cache, run.calls[i], o, now)
                     last == AllSettled(calls)
                 IN  /\ cache' = IF last
                                 THEN CacheAfterRound(c1, run.op, Results(calls), now)
                                 ELSE c1
                     /\ timers' =
                          [ timers EXCEPT !.runs =
                              IF last THEN RemoveAt(timers.runs, r)
                              ELSE [ timers.runs EXCEPT ![r].calls = calls ] ]
                     /\ UNCHANGED pools

\* A behaviour runs the timer of the network rounds, or the two timers of
\* the pools.
TimerWorkloads == { { "seedDataUpdater" }, { "poolUpdater", "poolDataUpdater" } }

InitTimers ==
  /\ samples = << >>
  /\ voter = NotCalled
  /\ stats = NotCalled
  /\ InitProxy
  /\ workload \in TimerWorkloads
  /\ idx = << >>
  /\ lookup = NotCalled

NextTimers ==
  \/ SeedDataUpdater
  \/ PoolDataUpdater
  \/ PoolUpdater
  \/ SettleRun

SpecTimers == InitTimers /\ [][NextTimers]_vars

(***************************************************************************)
(* Reference notions the properties are stated with.                       *)
(***************************************************************************)
Count(xs, v) == Cardinality({ i \in 1..Len(xs) : xs[i] = v })

SetMax(S) == CHOOSE x \in S : \A y \in S : y <= x

SetMin(S) == CHOOSE x \in S : \A y \in S : x <= y

RECURSIVE Total(_)
Total(xs) == IF xs = << >> THEN 0 ELSE Head(xs) + Total(Tail(xs))

\* the k-th smallest element of xs
Kth(xs, k) ==
  CHOOSE v \in Range(xs) :
    /\ Cardinality({ i \in 1..Len(xs) : xs[i] < v }) < k
    /\ k <= Cardinality({ i \in 1..Len(xs) : xs[i] <= v })

\* twice the standard median
Median2(xs) ==
  IF Len(xs) % 2 = 1 THEN 2 * Kth(xs, (Len(xs) + 1) \div 2)
  ELSE Kth(xs, Len(xs) \div 2) + Kth(xs, Len(xs) \div 2 + 1)

\* a is an integer nearest to the mean of xs
NearestToMean(a, xs) ==
  /\ 2 * (Len(xs) * a - Total(xs)) <= Len(xs)
  /\ 2 * (Total(xs) - Len(xs) * a) <= Len(xs)

TopTally(xs) == SetMax({ Count(xs, v) : v \in Range(xs) })

Tied(xs) == { v \in Range(xs) : Count(xs, v) = TopTally(xs) }

NonZero(x) == x # 0

\* the usable values among the results of a round's calls
UsableValues(task) ==
  SelectSeq([ i \in 1..Len(task.calls) |->
                FieldOr0(task.calls[i].res, FieldOf(task.op)) ], NonZero)

\* a round that was reduced (not answered from the cache) and is answered
Reduced(task) == task.pc = "done" /\ task.kind = "aggregate" /\ ~task.hit

\* no upstream request was issued for the task
NoUpstreamCall(task) ==
  \A i \in 1..Len(task.calls) : task.calls[i].st = "hit"

\* this step starts the request or round in slot t
Starts(t) == started' = started + 1 /\ FreeSlot(t)

\* this step answers task t, which was not answered from the cache
AnswersMiss(t) ==
  /\ tasks'[t].pc = "done"
  /\ tasks[t].pc = "wait" \/ Starts(t)
  /\ ~tasks'[t].hit

Live(c, key, t) == key \in DOMAIN c /\ ~(c[key].t < t) /\ Truthy(c[key].v)

\* the producer of the answered task failed
ProducerFailed(task) ==
  IF task.kind = "aggregate" THEN IsError(task.ret)
  ELSE task.calls[1].st \in { "failed", "rejected" }

NoErrorCached == \A k \in DOMAIN cache : ~IsError(cache[k].v)

(***************************************************************************)
(* The helper functions.                                                   *)
(***************************************************************************)
\* C1: for every non-empty sample list the winner of voteValue is a value
\* whose tally is maximal (no value occurs strictly more often), and for
\* [5,5,7] the winner is 5 with confidence 2/3.
C1_PluralityWinner ==
  (voter.called /\ Len(samples) > 0) =>
    /\ voter.ret.value \in Range(samples)
    /\ \A v \in Range(samples) :
         Count(samples, v) <= Count(samples, voter.ret.value)
    /\ samples = << 5, 5, 7 >> =>
         /\ voter.ret.value = 5
         /\ 3 * voter.ret.conNum = 2 * voter.ret.conDen

\* C2: when two or more distinct values share the highest tally, the winner
\* is the largest of the tied values and the confidence is that tally divided
\* by the number of samples ([5,5,7,7] gives 7 with confidence 0.5).
C2_TieBreak ==
  (voter.called /\ Len(samples) > 0 /\ Cardinality(Tied(samples)) >= 2) =>
    /\ voter.ret.value = SetMax(Tied(samples))
    /\ voter.ret.conNum * Len(samples) = TopTally(samples) * voter.ret.conDen

\* C6: for every non-empty list of integer samples min <= med <= max and
\* min <= avg <= max, med being the standard median and avg the mean rounded
\* to the nearest integer.
C6_StatsWithinRange ==
  (stats.called /\ Len(samples) > 0) =>
    /\ ~stats.threw
    /\ stats.min = SetMin(Range(samples))
    /\ stats.max = SetMax(Range(samples))
    /\ 2 * stats.min <= stats.med2 /\ stats.med2 <= 2 * stats.max
    /\ stats.min <= stats.avg /\ stats.avg <= stats.max
    /\ stats.med2 = Median2(samples)
    /\ NearestToMean(stats.avg, samples)

\* an unsorted list of even length whose median is not an integer
C6_Witness ==
  /\ stats.called
  /\ samples = << 7, 5, 6, 5 >>
  /\ stats.med2 = 11
  /\ stats.avg = 6

(***************************************************************************)
(* The aggregation rounds.                                                 *)
(***************************************************************************)
\* C3: a round that collects no usable value at all (every node or pool
\* failed, or the list is empty) returns a result with ans = 0, win = 0 and
\* con = 1, not an error.
C3_EmptyRound ==
  \A t \in Slots :
    (Reduced(tasks[t]) /\ Len(UsableValues(tasks[t])) = 0) =>
      /\ ~IsError(tasks[t].ret)
      /\ tasks[t].ret.ans = 0
      /\ tasks[t].ret.win = 0
      /\ tasks[t].ret.conNum = tasks[t].ret.conDen

\* C4: a round over the seed nodes in which at least one call yields a usable
\* value, whatever calls fail, resolves with a result that is no error and
\* whose max, min, avg, med and win are those of the usable values.
C4_PartialFailure ==
  \A t \in Slots :
    (/\ Reduced(tasks[t])
     /\ tasks[t].op \in NetworkAggregates
     /\ Len(UsableValues(tasks[t])) > 0) =>
      LET xs == UsableValues(tasks[t])
          ret == tasks[t].ret
      IN  /\ ~IsError(ret)
          /\ ret.max = SetMax(Range(xs))
          /\ ret.min = SetMin(Range(xs))
          /\ NearestToMean(ret.avg, xs)
          /\ ret.med2 = Median2(xs)
          /\ ret.win \in Range(xs)
          /\ ret.ans = Len(xs)

\* one seed failed, the other answered, and the round has a result
C4_Witness ==
  \E t \in Slots :
    /\ Reduced(tasks[t])
    /\ tasks[t].op \in NetworkAggregates
    /\ \E i, j \in 1..Len(tasks[t].calls) :
         /\ tasks[t].calls[i].st = "failed"
         /\ tasks[t].calls[j].st = "ok"
    /\ ~IsError(tasks[t].ret)
    /\ tasks[t].ret.ans = 1

\* C5: in every aggregation result of the four rounds cnt is the number of
\* nodes or pools queried (failed ones included), ans the number of usable
\* responses, and ans <= cnt.
C5_CountAndAnswers ==
  \A t \in Slots :
    (Reduced(tasks[t]) /\ ~IsError(tasks[t].ret)) =>
      /\ tasks[t].ret.cnt = Len(tasks[t].calls)
      /\ "ans" \in DOMAIN tasks[t].ret
      /\ tasks[t].ret.ans = Len(UsableValues(tasks[t]))
      /\ tasks[t].ret.ans <= tasks[t].ret.cnt

(***************************************************************************)
(* The cached operations: getinfo, feeinfo, getheight, gettransactions,    *)
(* getpeers, getTransactionPool, getCurrencyId and the four rounds.        *)
(***************************************************************************)
Marked(payload, flag) == "cached" \in DOMAIN payload /\ payload.cached = flag

\* the request or round in slot t was answered from the live entry under its
\* key, with the payload the entry holds (marked cached: true when both)
HitReturns(t, marked) ==
  /\ Live(cache, tasks[t].key, now)
  /\ NoUpstreamCall(tasks[t])
  /\ IF marked
     THEN tasks[t].ret = SetField(cache[tasks[t].key].v, "cached", TRUE)
     ELSE /\ tasks[t].ret = cache[tasks[t].key].v
          /\ "cached" \notin DOMAIN tasks[t].ret

\* C7, as stated: every cached operation answered from a live entry returns
\* the stored payload annotated with cached: true and issues no upstream call.
C7_HitIsMarked ==
  \A t \in Slots :
    (tasks[t].pc = "done" /\ tasks[t].hit) =>
      /\ HitReturns(t, TRUE)
      /\ Marked(tasks[t].ret, TRUE)

\* C7, amended: a cached operation answered from a live entry issues no
\* upstream call; the node calls and the four rounds return the stored payload
\* annotated with cached: true, getTransactionPool and getCurrencyId return it
\* as stored, without a cached field.
C7_HitReturnsStored ==
  \A t \in Slots :
    (tasks[t].pc = "done" /\ tasks[t].hit) =>
      HitReturns(t, tasks[t].kind # "explorer")

\* both kinds of hit have happened
C7_Witness ==
  \E t \in Slots :
    /\ tasks[t].pc = "done" /\ tasks[t].hit
    /\ tasks[t].kind = "explorer"
    /\ Live(cache, tasks[t].key, now)
    /\ "cached" \notin DOMAIN tasks[t].ret

\* this step answers a miss of slot t whose producer succeeded: the producer
\* ran once and its payload is stored under the key and returned
MissStores(t, marked) ==
  (AnswersMiss(t) /\ ~ProducerFailed(tasks'[t])) =>
    /\ tasks'[t].kind # "aggregate" =>
         Len(tasks'[t].calls) = 1 /\ tasks'[t].calls[1].st = "ok"
    /\ ~tasks'[t].rejected
    /\ IF marked THEN Marked(tasks'[t].ret, FALSE)
       ELSE "cached" \notin DOMAIN tasks'[t].ret
    /\ tasks'[t].key \in DOMAIN cache'
    /\ cache'[tasks'[t].key].v = tasks'[t].ret
    /\ ~(cache'[tasks'[t].key].t < now')

\* this step starts a request in slot t whose key has a live entry: it is
\* answered at once with the entry's payload and nothing is asked upstream
LiveEntryHits(t, marked) ==
  (Starts(t) /\ Live(cache, tasks'[t].key, now)) =>
    /\ tasks'[t].pc = "done" /\ tasks'[t].hit
    /\ NoUpstreamCall(tasks'[t])
    /\ IF marked
       THEN tasks'[t].ret = SetField(cache[tasks'[t].key].v, "cached", TRUE)
       ELSE tasks'[t].ret = cache[tasks'[t].key].v

\* C8, as stated: a miss whose producer succeeds invokes the producer once,
\* returns its result with cached: false and stores it under the key; the
\* next request for the key before the entry expires returns the stored
\* payload with cached: true without invoking the producer.
C8_MissIsMarked ==
  [][ \A t \in Slots : MissStores(t, TRUE) /\ LiveEntryHits(t, TRUE) ]_vars

\* C8, amended: as stated for the node calls and the four rounds;
\* getTransactionPool and getCurrencyId return and store the producer's
\* result without a cached field, and the next request returns it as stored.
C8_MissStoresResult ==
  [][ \A t \in Slots :
        /\ MissStores(t, tasks'[t].kind # "explorer")
        /\ LiveEntryHits(t, tasks'[t].kind # "explorer") ]_vars

\* a miss was answered and its payload is the live entry under the key
C8_Witness ==
  \E t \in Slots :
    /\ tasks[t].pc = "done" /\ ~tasks[t].hit /\ ~tasks[t].rejected
    /\ tasks[t].kind # "aggregate"
    /\ tasks[t].calls[1].st = "ok"
    /\ Live(cache, tasks[t].key, now)
    /\ cache[tasks[t].key].v = tasks[t].ret

\* no entry is written or replaced under the key of slot t by this step
Unwritten(t) ==
  tasks'[t].key \in DOMAIN cache' =>
    /\ tasks'[t].key \in DOMAIN cache
    /\ cache'[tasks'[t].key] = cache[tasks'[t].key]

\* a request whose key has no entry asks upstream
AbsentEntryMisses(t) ==
  (Starts(t) /\ tasks'[t].key \notin DOMAIN cache) =>
    /\ ~tasks'[t].hit
    /\ tasks'[t].kind # "aggregate" =>
         tasks'[t].pc = "wait" /\ tasks'[t].calls[1].st = "pending"

\* C9, as stated: a cached operation whose producer fails (upstream error or
\* timeout) returns an error payload without writing the cache, no error
\* payload is ever stored, and the next request for the key invokes the
\* producer again.
C9_ErrorIsReturned ==
  [][ /\ NoErrorCached'
      /\ \A t \in Slots :
           /\ (AnswersMiss(t) /\ ProducerFailed(tasks'[t])) =>
                /\ ~tasks'[t].rejected
                /\ IsError(tasks'[t].ret)
                /\ Unwritten(t)
           /\ AbsentEntryMisses(t) ]_vars

\* C9, amended: a failing producer never writes the cache, no error payload
\* is ever stored and the next request for the key invokes the producer
\* again; the node calls and the four rounds return an error payload, while
\* getTransactionPool and getCurrencyId reject.
C9_ErrorNotCached ==
  [][ /\ NoErrorCached'
      /\ \A t \in Slots :
           /\ (AnswersMiss(t) /\ ProducerFailed(tasks'[t])) =>
                /\ IF tasks'[t].kind = "explorer"
                   THEN tasks'[t].rejected
                   ELSE ~tasks'[t].rejected /\ IsError(tasks'[t].ret)
                /\ Unwritten(t)
           /\ AbsentEntryMisses(t) ]_vars

\* a node call failed, its error payload was returned and the key has no entry
C9_Witness ==
  \E t \in Slots :
    /\ tasks[t].pc = "done" /\ ~tasks[t].hit
    /\ tasks[t].kind = "node"
    /\ tasks[t].calls[1].st = "failed"
    /\ IsError(tasks[t].ret)
    /\ tasks[t].key \notin DOMAIN cache

\* C10: an entry whose TTL has elapsed is absent to a read, whether or not
\* the periodic sweep has removed it: the request that finds it is not
\* answered from it and invokes the producer.
C10_ExpiredIsAbsent ==
  [][ \A t \in Slots :
        (/\ Starts(t)
         /\ tasks'[t].key \in DOMAIN cache
         /\ cache[tasks'[t].key].t < now) =>
          /\ ~tasks'[t].hit
          /\ IF tasks'[t].kind = "aggregate"
             THEN Len(tasks'[t].calls) =
                    IF tasks'[t].op \in NetworkAggregates
                    THEN Len(seeds) ELSE Len(pools)
             ELSE tasks'[t].pc = "wait" /\ tasks'[t].calls[1].st = "pending"
          /\ tasks'[t].key \in DOMAIN cache' =>
               cache'[tasks'[t].key] # cache[tasks'[t].key] ]_vars

\* a request found an expired entry the sweep had not removed and is waiting
\* for its upstream call
C10_Witness ==
  \E t \in Slots :
    /\ tasks[t].pc = "wait"
    /\ tasks[t].stale
    /\ now > cacheTimeout
    /\ Pending(tasks[t]) # {}

(***************************************************************************)
(* The routes /block/:idx and /block/header/:idx.                          *)
(***************************************************************************)
\* the decimal numeral of an integer
Numeral(n) == IF n < 0 THEN << "-" >> \o NatToString(0 - n) ELSE NatToString(n)

\* the integers an identifier of at most MaxIdLen characters can denote
Denotable == (0 - 10 * 10 * 10)..(10 * 10 * 10 * 10)

\* parsing str as an integer and converting back reproduces str
RoundTrips(str) == \E n \in Denotable : Numeral(n) = str

\* C17: on /block/:idx and /block/header/:idx an identifier is looked up by
\* height if and only if parsing it as an integer and converting the integer
\* back to a string reproduces the identifier exactly; every other identifier
\* is looked up by hash.
C17_HeightIffRoundTrip ==
  lookup.called =>
    /\ lookup.op \in { "getBlockHash", "getBlockHeaderByHeight" } <=> RoundTrips(idx)
    /\ lookup.op \in { "getBlock", "getBlockHeaderByHash" } <=> ~RoundTrips(idx)
    /\ "height" \in DOMAIN lookup => Numeral(lookup.height) = idx
    /\ "hash" \in DOMAIN lookup => lookup.hash = idx

(***************************************************************************)
(* The TTL of the aggregates.                                              *)
(***************************************************************************)
AggregateKeys ==
  { Key(Scope(name), Scope(name), name) :
      name \in NetworkAggregates \cup PoolAggregates }

\* this step writes the entry under key
Writes(key) ==
  /\ key \in DOMAIN cache'
  /\ key \notin DOMAIN cache \/ cache'[key] # cache[key]

\* C11: every cache entry written for one of the four aggregates expires
\* after a TTL of its own of one third to one half of the target block
\* interval (10 to 15 seconds), not after the default cache timeout.
C11_AggregateTtl ==
  [][ \A key \in AggregateKeys :
        Writes(key) =>
          /\ 3 * (cache'[key].t - now') >= targetBlockTime
          /\ 2 * (cache'[key].t - now') <= targetBlockTime ]_vars

(***************************************************************************)
(* Transport errors on the single-node endpoints.                          *)
(***************************************************************************)
\* C18: for _getInfo, _feeInfo, _getHeight, _getPeers and _getTransactions a
\* failed or timed-out upstream call never rejects the operation (the handler
\* never answers 500): the operation resolves to an error payload whose node
\* field is the host and port attempted, the default node when none was given.
C18_NodeErrorResolves ==
  \A t \in Slots :
    (tasks[t].pc = "done" /\ tasks[t].kind = "node") =>
      /\ ~tasks[t].rejected
      /\ HttpStatus(tasks[t]) = 200
      /\ tasks[t].calls[1].st = "failed" =>
           /\ IsError(tasks[t].ret)
           /\ tasks[t].ret.node =
                [ host |-> IF tasks[t].calls[1].node = Undef
                           THEN defaultHost ELSE tasks[t].calls[1].node,
                  port |-> IF tasks[t].calls[1].port = Undef
                           THEN defaultPort ELSE tasks[t].calls[1].port ]

\* a call to the default node, requested without node and port, has failed
C18_Witness ==
  \E t \in Slots :
    /\ tasks[t].pc = "done" /\ tasks[t].kind = "node"
    /\ tasks[t].calls[1].st = "failed"
    /\ tasks[t].calls[1].node = Undef
    /\ tasks[t].ret.node.host = defaultHost
    /\ HttpStatus(tasks[t]) = 200

(***************************************************************************)
(* The block explorer functions.                                           *)
(***************************************************************************)
\* an explorer request that has been answered
AnsweredQuery(task) == task.pc = "done" /\ task.kind = "mirror"

\* the answer is the mirror's and the daemon was not asked for one
ReturnsMirror(task) ==
  /\ ~task.rejected
  /\ task.mirror.st = "ok"
  /\ task.ret = task.mirror.res
  /\ task.fallback = NoCall

\* the answer comes from the one fallback call of the daemon, made for the
\* node of the request; a failed call rejects with the generic failure,
\* which the route answers with status 500
ReturnsFallback(task) ==
  /\ task.fallback # NoCall
  /\ task.fallback.host = task.host /\ task.fallback.port = task.port
  /\ Cardinality({ i \in 1..Len(task.log) :
                     /\ task.log[i] = "daemon"
                     /\ \E j \in 1..(i - 1) : task.log[j] = "mirror" }) = 1
  /\ task.fallback.st \in { "ok", "failed" }
  /\ task.fallback.st = "ok" =>
       /\ ~task.rejected
       /\ HttpStatus(task) = 200
       /\ IF task.op = "getBlockCount"
          THEN task.ret.count = task.fallback.res.num
          ELSE task.ret.data = task.fallback.res.num /\ task.ret.from = "daemon"
  /\ task.fallback.st = "failed" =>
       /\ task.rejected
       /\ task.reason = "Failure encountered"
       /\ HttpStatus(task) = 500

\* the mirror answered with a count within maxDeviance of the network height
\* that the height lookup gave
WithinDeviance(task) ==
  /\ task.mirror.st = "ok"
  /\ "network_height" \in DOMAIN task.height.res
  /\ task.height.res.network_height - task.mirror.res.count <= maxDeviance
  /\ task.mirror.res.count - task.height.res.network_height <= maxDeviance

\* C12: getBlockCount returns the mirror's count if and only if the mirror
\* answered and |networkHeight - mirrorCount| <= maxDeviance; otherwise the
\* mirror's answer is discarded and the result comes from a live call of the
\* daemon (mirror 100 against network height 110 is rejected, against 103
\* accepted).
C12_DevianceRule ==
  /\ Deviates([ network_height |-> 110 ], [ count |-> 100 ])
  /\ ~Deviates([ network_height |-> 103 ], [ count |-> 100 ])
  /\ \A t \in Slots :
       (AnsweredQuery(tasks[t]) /\ tasks[t].op = "getBlockCount") =>
         /\ ReturnsMirror(tasks[t]) <=> WithinDeviance(tasks[t])
         /\ ~WithinDeviance(tasks[t]) => ReturnsFallback(tasks[t])

\* C13: the network height that getBlockCount compares the mirror's count
\* with is the consensus of the aggregation over the seed nodes (the result
\* of _getGlobalHeight), not the answer of a single node.
C13_HeightIsConsensus ==
  \A t \in Slots :
    (/\ tasks[t].pc # "idle"
     /\ tasks[t].kind = "mirror" /\ tasks[t].op = "getBlockCount"
     /\ tasks[t].stage # "height") =>
      /\ tasks[t].height.kind = "aggregate"
      /\ tasks[t].height.key = Key(Scope("globalheight"), Scope("globalheight"),
                                   "globalheight")

\* C14: for getBlocks, getBlock, getTransaction, getBlockHash,
\* getLastBlockHeader, getBlockHeaderByHash, getBlockHeaderByHeight and
\* getBlockCount, when the call of the mirror fails exactly one live call of
\* the daemon is made and its result returned; when that call fails too the
\* operation rejects with the generic failure, answered with status 500.
C14_FallbackAndExhaustion ==
  \A t \in Slots :
    (/\ tasks[t].pc # "idle" /\ tasks[t].kind = "mirror"
     /\ tasks[t].op \in FallbackOps \cup { "getBlockCount" }
     /\ tasks[t].mirror.st = "failed") =>
      /\ tasks[t].fallback # NoCall
      /\ tasks[t].fallback.method = tasks[t].op
      /\ tasks[t].pc = "done" => ReturnsFallback(tasks[t])

\* the mirror and then the daemon failed, and the request was rejected
C14_Witness ==
  \E t \in Slots :
    /\ AnsweredQuery(tasks[t])
    /\ tasks[t].op \in FallbackOps
    /\ tasks[t].mirror.st = "failed"
    /\ tasks[t].fallback.st = "failed"
    /\ tasks[t].rejected
    /\ HttpStatus(tasks[t]) = 500

\* C15: for every explorer function other than getBlockCount, when the call
\* of the mirror succeeds its result is returned unchanged and no live call
\* of the daemon is made for the request.
C15_MirrorPreferred ==
  \A t \in Slots :
    (/\ tasks[t].pc # "idle" /\ tasks[t].kind = "mirror"
     /\ tasks[t].op # "getBlockCount"
     /\ tasks[t].mirror.st = "ok") =>
      /\ tasks[t].pc = "done"
      /\ ReturnsMirror(tasks[t])
      /\ HttpStatus(tasks[t]) = 200
      /\ \A i \in 1..Len(tasks[t].log) : tasks[t].log[i] # "daemon"

\* the mirror answered getBlock and its data was returned
C15_Witness ==
  \E t \in Slots :
    /\ AnsweredQuery(tasks[t])
    /\ tasks[t].op = "getBlock"
    /\ tasks[t].mirror.st = "ok"
    /\ tasks[t].ret.from = "mirror"
    /\ tasks[t].fallback = NoCall

\* the sources a request has asked so far, in order
Trace(task) ==
  IF task.kind = "mirror" THEN task.log
  ELSE IF NoUpstreamCall(task) THEN << >> ELSE << "daemon" >>

\* the mirror is asked first, and the daemon only after the mirror has failed
MirrorFirst(log) ==
  /\ Len(log) > 0 => log[1] = "mirror"
  /\ \A i \in 1..Len(log) :
       log[i] = "daemon" => \E j \in 1..(i - 1) : log[j] = "mirror failed"

\* the explorer queries the specification lists
ListedQueries == FallbackOps \cup ExplorerMethods

RpcRequest(task) == task.pc # "idle" /\ task.kind = "rpc"

\* C19: a JSON-RPC request whose body has no method is rejected with an
\* invalid-request error before any query of the mirror or call of the
\* daemon is made.
C19_NoMethodRejected ==
  \A t \in Slots :
    (RpcRequest(tasks[t]) /\ tasks[t].req.content.method = Undef) =>
      /\ tasks[t].pc = "done"
      /\ tasks[t].rejected
      /\ tasks[t].reason = "No method defined"
      /\ tasks[t].log = << >>
      /\ tasks[t].mirror = NoCall
      /\ tasks[t].fallback = NoCall
      /\ tasks[t].height = NoCall

\* a request without a method, with params, was rejected
C19_Witness ==
  \E t \in Slots :
    /\ RpcRequest(tasks[t])
    /\ tasks[t].req.content.method = Undef
    /\ tasks[t].req.content.params # Undef
    /\ tasks[t].rejected
    /\ HttpStatus(tasks[t]) = 500

\* C20: a JSON-RPC request whose method is not in the dispatch table is
\* forwarded, method name and params unchanged, as one passthrough call to
\* the node of the request (the default node when none is given), and the
\* caller receives the outcome of that call.
C20_Passthrough ==
  \A t \in Slots :
    (/\ RpcRequest(tasks[t])
     /\ tasks[t].req.content.method # Undef
     /\ tasks[t].req.content.method \notin DOMAIN DispatchTable) =>
      /\ tasks[t].op = "_jsonRpc"
      /\ tasks[t].log = << "daemon" >>
      /\ tasks[t].mirror = NoCall
      /\ tasks[t].fallback.method = tasks[t].req.content.method
      /\ tasks[t].fallback.params = tasks[t].req.content.params
      /\ tasks[t].fallback.host =
           IF tasks[t].req.node = Undef THEN defaultHost ELSE tasks[t].req.node
      /\ tasks[t].fallback.port =
           IF tasks[t].req.port = Undef THEN defaultPort ELSE tasks[t].req.port
      /\ tasks[t].pc = "done" =>
           IF tasks[t].fallback.st = "ok"
           THEN ~tasks[t].rejected /\ tasks[t].ret.data = tasks[t].fallback.res.num
           ELSE tasks[t].rejected /\ tasks[t].reason = "err"

\* an unknown method sent to a seed node was forwarded there and answered
C20_Witness ==
  \E t \in Slots :
    /\ RpcRequest(tasks[t])
    /\ tasks[t].req.content.method = OtherMethod
    /\ tasks[t].req.node = seeds[1].host
    /\ tasks[t].fallback.host = seeds[1].host
    /\ tasks[t].fallback.st = "ok"
    /\ tasks[t].pc = "done" /\ ~tasks[t].rejected

\* a request whose method no case of the switch names: unknown, or absent
Unsupported(task) ==
  RpcRequest(task) /\ task.req.content.method \notin DOMAIN DispatchTable

\* C21, as stated: a JSON-RPC request with an unknown method, like one with
\* no method, is rejected before dispatch, and no call of the daemon is made
\* for it.
C21_UnknownRejected ==
  \A t \in Slots :
    Unsupported(tasks[t]) =>
      /\ tasks[t].pc = "done" /\ tasks[t].rejected
      /\ tasks[t].fallback = NoCall
      /\ tasks[t].log = << >>

\* C21, amended: only a request with no method is rejected before dispatch,
\* with no call of the daemon; a request with an unknown method is
\* dispatched to _jsonRpc, which makes one call of the daemon, and is
\* rejected only when that call fails.
C21_OnlyAbsentRejected ==
  \A t \in Slots :
    Unsupported(tasks[t]) =>
      IF tasks[t].req.content.method = Undef
      THEN /\ tasks[t].op = "_processJsonRPC"
           /\ tasks[t].rejected
           /\ tasks[t].fallback = NoCall
      ELSE /\ tasks[t].op = "_jsonRpc"
           /\ tasks[t].fallback # NoCall
           /\ tasks[t].rejected <=> tasks[t].fallback.st = "failed"

\* a request with an unknown method is waiting for the daemon
C21_Witness ==
  \E t \in Slots :
    /\ Unsupported(tasks[t])
    /\ tasks[t].req.content.method = OtherMethod
    /\ tasks[t].pc = "wait"
    /\ tasks[t].fallback.st = "pending"

(***************************************************************************)
(* The timers.                                                             *)
(***************************************************************************)
\* a run that producer p launched has not settled
InFlight(p) == \E r \in 1..Len(timers.runs) : timers.runs[r].by = p

\* the callback of p runs in this step
Fires(p) == timers'.fired[p] = timers.fired[p] + 1

\* C22: no periodic producer (the network rounds, the pool rounds, the
\* refresh of the pool list) is launched while a run it launched earlier is
\* still in flight.
C22_NoSelfOverlap ==
  [][ \A p \in Producers : Fires(p) => ~InFlight(p) ]_vars

(***************************************************************************)
(* The readiness of the mirror.                                            *)
(***************************************************************************)
\* the request waits for the answer of the mirror
WaitsMirror(task) ==
  task.pc = "wait" /\ task.kind = "mirror" /\ task.stage = "mirror"

\* the request in slot t calls the mirror in this step
AsksMirror(t) == WaitsMirror(tasks'[t]) /\ ~WaitsMirror(tasks[t])

\* C23: the mirror is queried only after it has emitted its ready signal;
\* while blockCacheReady is false the explorer queries go to the daemon and
\* do not read the mirror.
C23_ReadyGate ==
  [][ \A t \in Slots : AsksMirror(t) => blockCacheReady ]_vars

(***************************************************************************)
(* The aggregation rounds.                                                 *)
(***************************************************************************)
\* the calls of a round that went upstream
Issued(task) == { i \in 1..Len(task.calls) : task.calls[i].st # "hit" }

AggregateRound(task) == task.pc # "idle" /\ task.kind = "aggregate"

\* C24: every upstream call issued in an aggregation round, to a seed node
\* or to a pool, is made with the configured timeout this.timeout, so that a
\* node that never answers is cut off and counted as a failed sample.
C24_CallsCarryTimeout ==
  \A t \in Slots :
    AggregateRound(tasks[t]) =>
      \A i \in Issued(tasks[t]) :
        /\ "timeout" \in DOMAIN RequestOptions(tasks[t].calls[i])
        /\ RequestOptions(tasks[t].calls[i]).timeout = timeout

\* the nodes a round queries: the seeds, or the pools of the list
NodesOf(name, ps) ==
  IF name \in NetworkAggregates
  THEN [ i \in 1..Len(seeds) |-> seeds[i].host ]
  ELSE [ i \in 1..Len(ps) |-> ps[i].url ]

\* this step runs the executor of a round in slot t, which misses the cache
StartsRound(t) ==
  /\ Starts(t)
  /\ tasks'[t].pc # "idle" /\ tasks'[t].kind = "aggregate" /\ ~tasks'[t].hit

\* C25: within one aggregation round every per-node call is issued before
\* any response is handled, and the reduction (statistics, vote, cache
\* write) happens only once every per-node call of the round has settled,
\* with success or failure: no reduction uses a part of the calls.
C25_FanOutThenReduce ==
  [][ /\ \A t \in Slots :
           StartsRound(t) =>
             LET nodes == NodesOf(tasks'[t].op, pools)
             IN  /\ Len(tasks'[t].calls) = Len(nodes)
                 /\ \A i \in 1..Len(nodes) :
                      /\ tasks'[t].calls[i].host = nodes[i]
                      /\ tasks'[t].calls[i].st \in { "pending", "hit" }
      /\ \A t \in Slots :
           (AggregateRound(tasks'[t]) /\ ~tasks'[t].hit) =>
             IF Pending(tasks'[t]) # { }
             THEN tasks'[t].pc = "wait" /\ tasks'[t].ret = Undefined
             ELSE /\ tasks'[t].pc = "done"
                  /\ tasks'[t].ret =
                       RoundResult(tasks'[t].op, Results(tasks'[t].calls))
      /\ \A name \in NetworkAggregates \cup PoolAggregates :
           Writes(Key(Scope(name), Scope(name), name)) =>
             \E t \in Slots :
               /\ AnswersMiss(t)
               /\ tasks'[t].kind = "aggregate" /\ tasks'[t].op = name
               /\ Pending(tasks'[t]) = { }
               /\ cache'[Key(Scope(name), Scope(name), name)].v = tasks'[t].ret
    ]_vars

\* a round was reduced after one seed failed first and the other answered
\* later
C25_Witness ==
  \E t \in Slots :
    /\ Reduced(tasks[t])
    /\ tasks[t].op = "globalheight"
    /\ Len(tasks[t].calls) = Len(seeds)
    /\ tasks[t].calls[1].st = "failed"
    /\ tasks[t].calls[2].st = "ok"
    /\ ~IsError(tasks[t].ret)
    /\ Live(cache, tasks[t].key, now)

(***************************************************************************)
(* Concurrent misses.                                                      *)
(***************************************************************************)
\* a request or round of a function that marks its results cached
MarkedMiss(task) ==
  task.pc # "idle" /\ task.kind \in { "node", "aggregate" } /\ ~task.hit

\* the request in slot t missed the cache, and while it waited another
\* producer stored a result under its key
OvertakenMiss(t) ==
  /\ tasks[t].pc = "wait"
  /\ MarkedMiss(tasks[t])
  /\ Live(cache, tasks[t].key, now)

Queried(task) == [ i \in 1..Len(task.calls) |-> task.calls[i].host ]

PoolRound(task) ==
  AggregateRound(task) /\ task.op \in PoolAggregates /\ ~task.hit

\* C27: a pool round queries exactly the pools that were in the pool list
\* when it started; a refresh of the list that completes while the round is
\* in flight replaces the list as a whole and changes neither the pools the
\* round has queried nor the samples it reduces; a failed refresh leaves the
\* list as it was.
C27_PoolListSnapshot ==
  [][ /\ \A t \in Slots :
           (StartsRound(t) /\ tasks'[t].op \in PoolAggregates) =>
             Queried(tasks'[t]) = [ i \in 1..Len(pools) |-> pools[i].url ]
      /\ \A t \in Slots :
           (PoolRound(tasks[t]) /\ tasks[t].pc = "wait") =>
             /\ PoolRound(tasks'[t])
             /\ Queried(tasks'[t]) = Queried(tasks[t])
             /\ pools' # pools => tasks'[t] = tasks[t]
             /\ tasks'[t].pc = "done" =>
                  tasks'[t].ret =
                    RoundResult(tasks'[t].op, Results(tasks'[t].calls))
      /\ pools' # pools => pools' \in DirectoryLists
    ]_vars

\* a round is waiting for the two pools it asked, and the list has since
\* been replaced by one that names only the second
C27_Witness ==
  \E t \in Slots :
    /\ PoolRound(tasks[t]) /\ tasks[t].pc = "wait"
    /\ Queried(tasks[t]) = [ i \in 1..Len(DirectoryPools) |-> DirectoryPools[i].url ]
    /\ pools = Tail(DirectoryPools)

(***************************************************************************)
(* _getPoolNetworkInfo and the cache.                                      *)
(***************************************************************************)
\* an entry was written under the key of the call and has not expired
EntryWritten(c, call, t) == call.key \in DOMAIN c /\ ~Expired(c[call.key], t)

\* C28: no call of _getPoolNetworkInfo is answered from the cache: the
\* entry it writes holds no payload, so every call for any pool URL, one
\* made right after a successful call included, misses and requests the
\* pool.
C28_PoolInfoNeverCached ==
  /\ \A t \in Slots :
       (AggregateRound(tasks[t]) /\ tasks[t].op \in PoolAggregates) =>
         \A i \in 1..Len(tasks[t].calls) :
           /\ tasks[t].calls[i].kind = "pool"
           /\ tasks[t].calls[i].st # "hit"
  /\ \A i \in 1..Len(DirectoryPools) :
       LET key == Key("pool", DirectoryPools[i].url, "networkInfo")
       IN  key \in DOMAIN cache => ~Truthy(cache[key].v)

\* a round has requested a pool although the entry of an earlier successful
\* call for that pool has not expired
C28_Witness ==
  \E t \in Slots :
    /\ AggregateRound(tasks[t]) /\ tasks[t].op \in PoolAggregates
    /\ tasks[t].pc = "wait"
    /\ \E i \in 1..Len(tasks[t].calls) :
         /\ tasks[t].calls[i].st = "pending"
         /\ EntryWritten(cache, tasks[t].calls[i], now)

(***************************************************************************)
(* Cache keys.                                                             *)
(***************************************************************************)
\* the node and port the request in the task asked for
Requested(task) == [ host |-> task.calls[1].host, port |-> task.calls[1].rport ]

\* C29: requests with different (node, port, method) never share a cache
\* entry: a response returned from the cache for a node and port was
\* produced by an upstream call to that node and port, and its node field
\* says so.
C29_CacheIsolation ==
  \A t \in Slots :
    (tasks[t].pc = "done" /\ tasks[t].kind = "node" /\ tasks[t].hit) =>
      /\ tasks[t].ret.node = Requested(tasks[t])
      /\ cache[tasks[t].key].v.node = Requested(tasks[t])

(***************************************************************************)
(* getBlockCount without a network height.                                 *)
(***************************************************************************)
\* the height lookup of the request resolved without a numeric height
NoNetworkHeight(task) ==
  /\ task.height # NoCall
  /\ task.height.st # "pending"
  /\ "network_height" \notin DOMAIN task.height.res

\* C30: getBlockCount never returns the count of the mirror unchecked: when
\* the height lookup gave no numeric height (it resolved to an error
\* payload) the count of the mirror is not returned, and the result comes
\* from the call of the daemon.
C30_NoUncheckedCount ==
  \A t \in Slots :
    (/\ AnsweredQuery(tasks[t])
     /\ tasks[t].op = "getBlockCount"
     /\ NoNetworkHeight(tasks[t])) =>
      /\ ~ReturnsMirror(tasks[t])
      /\ tasks[t].fallback # NoCall
      /\ ~tasks[t].rejected => tasks[t].ret = DaemonData("getBlockCount", tasks[t].fallback.res.num)

(***************************************************************************)
(* The samples of a recomputed aggregate.                                  *)
(***************************************************************************)
\* a network round that was recomputed and returned a result marked
\* cached: false
Recomputed(task) ==
  /\ Reduced(task)
  /\ task.op \in NetworkAggregates
  /\ ~IsError(task.ret)
  /\ task.ret.cached = FALSE

\* C31: when _getGlobalHeight or _getGlobalDifficulty returns a result marked
\* cached: false, every sample it reduced was obtained by a live call to its
\* node during that round: none comes from a per-node cache entry written by
\* an earlier request or round.
C31_FreshSamples ==
  \A t \in Slots :
    Recomputed(tasks[t]) =>
      \A i \in 1..Len(tasks[t].calls) :
        /\ tasks[t].calls[i].st # "hit"
        /\ "cached" \in DOMAIN tasks[t].calls[i].res =>
             tasks[t].calls[i].res.cached = FALSE

====
